---- MODULE Spec2Model ----
(***************************************************************************)
(* ChemoCare: the recurrence / anchor engine of src/src/App.js and the     *)
(* handlers that write the stored plan ("settings") and the stored         *)
(* override list ("moves").                                                *)
(*                                                                         *)
(* Representation.                                                         *)
(*   - A JavaScript Date is an instant: an integer number of hours since   *)
(*     the epoch, in UTC.  Its local fields (getFullYear/getMonth/getDate, *)
(*     getHours) are read through the local offset tz (local = UTC + tz).  *)
(*   - An ISO string "YYYY-MM-DD" is the ordinal of that calendar day (an  *)
(*     integer); the calendar (months, years) is not modelled.             *)
(*   - An optional value (null / undefined in the source) is <<>>, a       *)
(*     present value v is <<v>>.                                           *)
(***************************************************************************)
EXTENDS Integers, Sequences, FiniteSets, TLC

VARIABLES
    tz,     \* the local offset from UTC, in hours
    inp,    \* SpecFn: the plan and override list the functions are applied to
    call,   \* SpecFn: the last application of a function
    db,     \* the IndexedDB stores "settings" and "moves"
    now,    \* the clock: the instant new Date() returns
    app,    \* App's React state: settings, moves, and whether a refresh is due
    wz,     \* the SetupWizard save handler
    pe,     \* the PlanEditor: its vals state and its save handler
    ops,    \* the number of user edits so far
    rs,     \* the reset handler of the Header
    qa,     \* the save handler of QuickAddAppointment
    imp     \* the import handler of the ImportPanel and the SetupWizard

fnVars == <<inp, call>>
appVars == <<db, now, app, wz, pe, ops, rs, qa, imp>>
vars == <<tz, inp, call, db, now, app, wz, pe, ops, rs, qa, imp>>

(***************************** bounds **************************************)
\* calendar days 0..MaxDay are the dates the inputs are drawn from
MaxDay == 5
\* overrides are drawn for the occurrence indices 0..MaxIdx
MaxIdx == 2
\* the user makes at most MaxOps edits (moves of an occurrence, plan edits)
MaxOps == 2

(************************* program constants *******************************)
HoursPerDay == 24
SafetyMargin == 3
DefaultMaxCount == 1000
FreezeMax == 1000

None == <<>>
Some(v) == <<v>>

\* local offsets from UTC, in hours: west of, at and east of Greenwich
TZs == {-5, 0, 1}
Days == 0..MaxDay
StartDays == {1}
Freqs == {1, 2}
Indices == 0..MaxIdx
\* settings.cycles ?? null
Caps == {None, Some(1), Some(2)}

\* the time of day of "now" when a plan is saved
CutoffHours == {0, 15}

\* action rules {id, day, time, enabled} and one-off items {id, dateISO, time}
RuleLists ==
    { <<>>,
      <<[id |-> "pre", day |-> -1, time |-> None, enabled |-> Some(TRUE)],
        [id |-> "post", day |-> 2, time |-> Some(9), enabled |-> Some(TRUE)]>>,
      <<[id |-> "same", day |-> 1, time |-> None, enabled |-> None],
        [id |-> "off", day |-> 1, time |-> None, enabled |-> Some(FALSE)]>> }
OneOffLists ==
    { <<>>,
      <<[id |-> "a", dateISO |-> 2, time |-> None],
        [id |-> "b", dateISO |-> 1, time |-> Some(23)]>> }
\* the rules and one-off items of the plans buildEvents is applied to
PlanItems ==
    { <<rules, <<>>>> : rules \in RuleLists } \cup
    { <<rules, ones>> : rules \in RuleLists \ {<<>>}, ones \in OneOffLists \ {<<>>} }

\* the override lists the handlers store are sorted by index with one entry
\* per index; the inputs are such lists with no, one or two overrides
Moves == [index : Indices, newDateISO : Days]
MoveLists ==
    {<<>>} \cup {<<a>> : a \in Moves}
           \cup {<<p[1], p[2]>> : p \in {q \in Moves \X Moves : q[1].index < q[2].index}}

\* the override lists merged into a stored list
AddLists ==
    LET A == [index : Indices, newDateISO : {0, MaxDay}]
    IN {<<>>} \cup {<<a>> : a \in A}
              \cup {<<p[1], p[2]>> : p \in {q \in A \X A : q[1].index < q[2].index}}

\* override lists as buildAnchors may be handed them: in any order, with an
\* index more than once, with an override of occurrence 0
RawMoveLists ==
    LET A == [index : Indices, newDateISO : {0, 2}]
    IN {<<>>} \cup {<<a>> : a \in A} \cup {<<p[1], p[2]>> : p \in A \X A}
              \cup {<<p[1], p[2], p[3]>> : p \in A \X A \X A}

\* the day indicators a rule is given
DayInputs == (-3)..3

(**************************** date utilities *******************************)
\* getFullYear/getMonth/getDate of an instant: the local calendar day
LocalDay(d) == (d + tz) \div HoursPerDay
\* getHours of an instant
LocalHour(d) == (d + tz) % HoursPerDay
\* new Date(y, m, d): the instant of local midnight of a calendar day
NewLocalDate(day) == day * HoursPerDay - tz
\* Date.prototype.toISOString().slice(0, 10): the UTC calendar day
UTCDay(d) == d \div HoursPerDay

toISODate(d) == LET dt == NewLocalDate(LocalDay(d)) IN UTCDay(dt)

parseISODate(s) == NewLocalDate(s)

\* setDate(getDate() + days) keeps the local time of day
addDays(date, days) == NewLocalDate(LocalDay(date) + days) + LocalHour(date)

\* Math.round(x / 24) for an integer x: floor(x/24 + 1/2)
RoundDiv(x, n) == (2 * x + n) \div (2 * n)

diffDays(a, b) ==
    LET d1 == NewLocalDate(LocalDay(a))
        d2 == NewLocalDate(LocalDay(b))
    IN RoundDiv(d2 - d1, HoursPerDay)

(************************** stable sort by index ***************************)
RECURSIVE InsertByIndex_Unstable(_, _)
\* insert x before the elements of its index: the sort is no longer stable
InsertByIndex_Unstable(s, x) ==
    IF s = <<>> THEN <<x>>
    ELSE IF s[Len(s)].index < x.index THEN Append(s, x)
    ELSE Append(InsertByIndex_Unstable(SubSeq(s, 1, Len(s) - 1), x), s[Len(s)])

RECURSIVE InsertByIndex(_, _)
\* insert x after the last element whose index is <= x.index
InsertByIndex(s, x) ==
    IF s = <<>> THEN <<x>>
    ELSE IF s[Len(s)].index <= x.index THEN Append(s, x)
    ELSE Append(InsertByIndex(SubSeq(s, 1, Len(s) - 1), x), s[Len(s)])

RECURSIVE SortByIndex(_)
\* Array.prototype.sort((a, b) => a.index - b.index), which is stable
SortByIndex(s) ==
    IF s = <<>> THEN <<>>
    ELSE InsertByIndex(SortByIndex(SubSeq(s, 1, Len(s) - 1)), s[Len(s)])

(*************************** anchor series *********************************)
\* Dedup keeping every anchor, duplicates of an index included
Dedup_KeepAll(anchors, i, dedup) == anchors

RECURSIVE Dedup_KeepFirst(_, _, _)
\* Dedup keeping the first anchor of an index instead of the last
Dedup_KeepFirst(anchors, i, dedup) ==
    IF i > Len(anchors) THEN dedup
    ELSE LET a == anchors[i] IN
         IF dedup = <<>> \/ dedup[Len(dedup)].index # a.index
         THEN Dedup_KeepFirst(anchors, i + 1, Append(dedup, a))
         ELSE Dedup_KeepFirst(anchors, i + 1, dedup)

RECURSIVE Dedup(_, _, _)
\* the dedup loop: an anchor with the index of the last one kept replaces it
Dedup(anchors, i, dedup) ==
    IF i > Len(anchors) THEN dedup
    ELSE LET a == anchors[i] IN
         IF dedup = <<>> \/ dedup[Len(dedup)].index # a.index
         THEN Dedup(anchors, i + 1, Append(dedup, a))
         ELSE Dedup(anchors, i + 1, [dedup EXCEPT ![Len(dedup)] = a])

buildAnchors(startDateISO, frequencyDays, moves) ==
    LET sorted == SortByIndex(moves)
        pushed == <<[index |-> 0, date |-> parseISODate(startDateISO)]>> \o
                  [j \in 1..Len(sorted) |->
                      [index |-> sorted[j].index,
                       date |-> parseISODate(sorted[j].newDateISO)]]
        anchors == SortByIndex(pushed)
    IN [anchors |-> Dedup(anchors, 1, <<>>), frequencyDays |-> frequencyDays]

\* ScanAnchors never leaving the first anchor
ScanAnchors_FirstAnchor(anchors, j, occurrenceIndex, anchor) == anchors[1]

\* ScanAnchors without its index test: the last anchor always wins
ScanAnchors_LastAnchor(anchors, j, occurrenceIndex, anchor) == anchors[Len(anchors)]

RECURSIVE ScanAnchors(_, _, _, _)
\* the for-of loop of computeTreatmentDate, with its break
ScanAnchors(anchors, j, occurrenceIndex, anchor) ==
    IF j > Len(anchors) THEN anchor
    ELSE IF anchors[j].index <= occurrenceIndex
         THEN ScanAnchors(anchors, j + 1, occurrenceIndex, anchors[j])
         ELSE anchor

\* computeTreatmentDate adding delta days instead of delta * frequencyDays
computeTreatmentDate_NoFrequency(series, occurrenceIndex) ==
    LET anchor == ScanAnchors(series.anchors, 1, occurrenceIndex, series.anchors[1])
        delta == occurrenceIndex - anchor.index
    IN addDays(anchor.date, delta)

computeTreatmentDate(series, occurrenceIndex) ==
    LET anchor == ScanAnchors(series.anchors, 1, occurrenceIndex, series.anchors[1])
        delta == occurrenceIndex - anchor.index
    IN addDays(anchor.date, delta * series.frequencyDays)

(************************* windowed enumerator *****************************)
RECURSIVE Walk_NoSkip(_, _, _, _, _, _, _, _, _)
\* Walk yielding the occurrences dated before fromDate instead of skipping them
Walk_NoSkip(series, i, stop, count, fromDate, toDate, maxCount, cyclesCap, acc) ==
    IF i >= stop THEN acc
    ELSE IF cyclesCap # None /\ i >= cyclesCap[1] THEN acc
    ELSE LET d == computeTreatmentDate(series, i) IN
         IF toDate # None /\ d > toDate[1] THEN acc
         ELSE IF count + 1 >= maxCount
              THEN Append(acc, [index |-> i, date |-> d])
         ELSE Walk_NoSkip(series, i + 1, stop, count + 1, fromDate, toDate, maxCount,
                          cyclesCap, Append(acc, [index |-> i, date |-> d]))

RECURSIVE Walk_CapOffByOne(_, _, _, _, _, _, _, _, _)
\* Walk stopping at i > cyclesCap instead of i >= cyclesCap
Walk_CapOffByOne(series, i, stop, count, fromDate, toDate, maxCount, cyclesCap, acc) ==
    IF i >= stop THEN acc
    ELSE IF cyclesCap # None /\ i > cyclesCap[1] THEN acc
    ELSE LET d == computeTreatmentDate(series, i) IN
         IF toDate # None /\ d > toDate[1] THEN acc
         ELSE IF fromDate # None /\ d < fromDate[1]
              THEN Walk_CapOffByOne(series, i + 1, stop, count, fromDate, toDate, maxCount,
                                    cyclesCap, acc)
         ELSE IF count + 1 >= maxCount
              THEN Append(acc, [index |-> i, date |-> d])
         ELSE Walk_CapOffByOne(series, i + 1, stop, count + 1, fromDate, toDate, maxCount,
                               cyclesCap, Append(acc, [index |-> i, date |-> d]))

RECURSIVE Walk(_, _, _, _, _, _, _, _, _)
\* the for loop of iterateTreatments from index i, stop = startIndex + maxCount
Walk(series, i, stop, count, fromDate, toDate, maxCount, cyclesCap, acc) ==
    IF i >= stop THEN acc
    ELSE IF cyclesCap # None /\ i >= cyclesCap[1] THEN acc
    ELSE LET d == computeTreatmentDate(series, i) IN
         IF toDate # None /\ d > toDate[1] THEN acc
         ELSE IF fromDate # None /\ d < fromDate[1]
              THEN Walk(series, i + 1, stop, count, fromDate, toDate, maxCount, cyclesCap, acc)
         ELSE IF count + 1 >= maxCount
              THEN Append(acc, [index |-> i, date |-> d])
         ELSE Walk(series, i + 1, stop, count + 1, fromDate, toDate, maxCount, cyclesCap,
                   Append(acc, [index |-> i, date |-> d]))

Max(a, b) == IF a >= b THEN a ELSE b

\* the estimated first index of iterateTreatments
StartIndex(series, fromDate) ==
    IF fromDate # None
    THEN LET first == computeTreatmentDate(series, 0)
             est == diffDays(first, fromDate[1]) \div series.frequencyDays
         IN Max(0, est - SafetyMargin)
    ELSE 0

iterateTreatments(series, fromDate, toDate, maxCount, cyclesCap) ==
    LET startIndex == StartIndex(series, fromDate)
    IN Walk(series, startIndex, startIndex + maxCount, 0,
            fromDate, toDate, maxCount, cyclesCap, <<>>)

(***************************** move / freeze *******************************)
RECURSIVE MapSet(_, _)
\* Map.prototype.set: replace the value of an existing key in place,
\* append a new key at the end
MapSet(m, e) ==
    IF m = <<>> THEN <<e>>
    ELSE IF m[1].index = e.index THEN <<e>> \o SubSeq(m, 2, Len(m))
    ELSE <<m[1]>> \o MapSet(SubSeq(m, 2, Len(m)), e)

RECURSIVE MapSetAll(_, _, _)
MapSetAll(m, s, j) ==
    IF j > Len(s) THEN m
    ELSE MapSetAll(MapSet(m, [index |-> s[j].index, newDateISO |-> s[j].newDateISO]), s, j + 1)

\* mergeMoves setting the additions first, so that the existing entry wins
mergeMoves_BaseWins(base, add) ==
    SortByIndex(MapSetAll(MapSetAll(<<>>, add, 1), base, 1))

mergeMoves(base, add) ==
    SortByIndex(MapSetAll(MapSetAll(<<>>, base, 1), add, 1))

RECURSIVE FreezeLoop(_, _, _, _, _)
FreezeLoop(series, cutoffDate, cyclesCap, i, frozen) ==
    IF i >= FreezeMax THEN frozen
    ELSE IF cyclesCap # None /\ i >= cyclesCap[1] THEN frozen
    ELSE LET d == computeTreatmentDate(series, i) IN
         IF d <= cutoffDate
         THEN FreezeLoop(series, cutoffDate, cyclesCap, i + 1,
                         Append(frozen, [index |-> i, newDateISO |-> toISODate(d)]))
         ELSE frozen

freezePastMoves(series, cutoffDate, cyclesCap) ==
    FreezeLoop(series, cutoffDate, cyclesCap, 0, <<>>)

\* the click handler without its filter: the earlier override of the index stays
UpsertMove_NoFilter(moves, index, newDate) ==
    SortByIndex(moves \o <<[index |-> index, newDateISO |-> newDate]>>)

\* the filter / append / sort of the MoveTreatment click handler
UpsertMove(moves, index, newDate) ==
    SortByIndex(SelectSeq(moves, LAMBDA m : m.index # index) \o
                <<[index |-> index, newDateISO |-> newDate]>>)

(**************************** event materializer ***************************)
DaysPerMonthAhead == 31
WindowBackDays == 7

\* applyTime(date, hhmm): hhmm is None ("" or undefined) or Some(hour); the
\* model's instants are whole hours, so the minutes are always 00
applyTime(date, hhmm) ==
    IF hhmm = None THEN date
    ELSE NewLocalDate(LocalDay(date)) + hhmm[1]

\* dayToOffset without the shift of the days from 1 on
dayToOffset_NoShift(day) == day

dayToOffset(day) == IF day >= 1 THEN day - 1 ELSE day

\* days of a rule are integers in the model, so the parseInt / NaN branch of
\* normalizeDayInput is not taken
normalizeDayInput(raw) == IF raw = 0 THEN 1 ELSE raw

NormalizeRules(medRules) ==
    [j \in 1..Len(medRules) |-> [medRules[j] EXCEPT !.day = normalizeDayInput(@)]]


\* the comparator without its tie-break on the event type
CompareEvents_DateOnly(a, b) == a.date - b.date

\* events.sort's comparator: a.date - b.date || (a.type === "treatment" ? -1 : 1)
CompareEvents(a, b) ==
    IF a.date - b.date # 0 THEN a.date - b.date
    ELSE IF a.type = "treatment" THEN -1 ELSE 1

RECURSIVE InsertEvent(_, _)
\* insertion from the right: x moves left while the comparator orders it first
InsertEvent(s, x) ==
    IF s = <<>> THEN <<x>>
    ELSE IF CompareEvents(x, s[Len(s)]) < 0
         THEN Append(InsertEvent(SubSeq(s, 1, Len(s) - 1), x), s[Len(s)])
         ELSE Append(s, x)

RECURSIVE SortEvents(_)
SortEvents(s) ==
    IF s = <<>> THEN <<>>
    ELSE InsertEvent(SortEvents(SubSeq(s, 1, Len(s) - 1)), s[Len(s)])

\* The comparator answers 1 both ways for two actions or one-offs of the same
\* date-time (and -1 both ways for two treatments), so the order events.sort
\* gives them depends on the engine's algorithm.  SortEvents is an insertion
\* sort, MergeSortEvents a top-down merge sort that takes the left element
\* unless the comparator orders it after the right one.
RECURSIVE MergeEvents(_, _)
MergeEvents(l, r) ==
    IF l = <<>> THEN r
    ELSE IF r = <<>> THEN l
    ELSE IF CompareEvents(l[1], r[1]) <= 0
         THEN <<l[1]>> \o MergeEvents(Tail(l), r)
         ELSE <<r[1]>> \o MergeEvents(l, Tail(r))

RECURSIVE MergeSortEvents(_)
MergeSortEvents(s) ==
    IF Len(s) <= 1 THEN s
    ELSE LET h == Len(s) \div 2
         IN MergeEvents(MergeSortEvents(SubSeq(s, 1, h)),
                        MergeSortEvents(SubSeq(s, h + 1, Len(s))))

\* RuleEvents with ids that leave out the rule's id
RuleEvents_IdWithoutRule(medRules, index, date) ==
    LET live == SelectSeq(medRules, LAMBDA rule : ~(rule.enabled = Some(FALSE)))
    IN [j \in 1..Len(live) |->
          [id |-> <<"act", index>>, type |-> "action",
           date |-> applyTime(addDays(date, dayToOffset(live[j].day)), live[j].time),
           index |-> index, rule |-> live[j]]]

\* RuleEvents without the test of rule.enabled
RuleEvents_NoEnabledTest(medRules, index, date) ==
    [j \in 1..Len(medRules) |->
        [id |-> <<"act", index, medRules[j].id>>, type |-> "action",
         date |-> applyTime(addDays(date, dayToOffset(medRules[j].day)), medRules[j].time),
         index |-> index, rule |-> medRules[j]]]

\* the action events of one occurrence, in rule order
RuleEvents(medRules, index, date) ==
    LET live == SelectSeq(medRules, LAMBDA rule : ~(rule.enabled = Some(FALSE)))
    IN [j \in 1..Len(live) |->
          [id |-> <<"act", index, live[j].id>>, type |-> "action",
           date |-> applyTime(addDays(date, dayToOffset(live[j].day)), live[j].time),
           index |-> index, rule |-> live[j]]]

RECURSIVE OccurrenceEvents(_, _, _)
OccurrenceEvents(occs, j, medRules) ==
    IF j > Len(occs) THEN <<>>
    ELSE <<[id |-> <<"treat", occs[j].index>>, type |-> "treatment",
            date |-> occs[j].date, index |-> occs[j].index]>>
         \o RuleEvents(medRules, occs[j].index, occs[j].date)
         \o OccurrenceEvents(occs, j + 1, medRules)

OneOffEvents(oneOffs) ==
    [j \in 1..Len(oneOffs) |->
        [id |-> <<"one", oneOffs[j].id>>, type |-> "oneoff",
         date |-> applyTime(parseISODate(oneOffs[j].dateISO), oneOffs[j].time),
         item |-> oneOffs[j]]]

\* the events of buildEvents in the order they are pushed, before events.sort;
\* monthStart is the calendar day of new Date(now.getFullYear(), now.getMonth(), 1)
PushedEvents(s, moves, monthsAhead, monthStart) ==
    LET windowStart == addDays(NewLocalDate(monthStart), -WindowBackDays)
        windowEnd == addDays(NewLocalDate(monthStart), monthsAhead * DaysPerMonthAhead)
        series == buildAnchors(s.startDate, s.frequencyDays, moves)
        occs == iterateTreatments(series, Some(windowStart), Some(windowEnd),
                                  DefaultMaxCount, s.cycles)
    IN OccurrenceEvents(occs, 1, s.medRules) \o OneOffEvents(s.oneOffs)

\* buildEvents(settings, moves, {monthsAhead})
buildEvents(settings, moves, monthsAhead, monthStart) ==
    IF settings = None THEN <<>>
    ELSE SortEvents(PushedEvents(settings[1], moves, monthsAhead, monthStart))

(**************************** calendar export ******************************)
\* 60 * 60 * 1000 ms, in hours
OneHour == 1

\* toICSDate and toICSTime print the local fields of a Date: the calendar day
\* and the hour (the minutes are 00)
toICSDate(d) == LocalDay(d)
toICSTime(d) == LocalHour(d)

\* (ev.type === "action" && ev.rule?.time) || (ev.type === "oneoff" && ev.item?.time)
IsTimed(ev) ==
    \/ ev.type = "action" /\ ev.rule.time # None
    \/ ev.type = "oneoff" /\ ev.item.time # None

\* the event block with an all-day end on the day of the start
ICSEvent_EndSameDay(ev) ==
    IF IsTimed(ev)
    THEN [uid |-> ev.id, allDay |-> FALSE,
          start |-> <<toICSDate(ev.date), toICSTime(ev.date)>>,
          end |-> <<toICSDate(ev.date), toICSTime(ev.date + OneHour)>>]
    ELSE [uid |-> ev.id, allDay |-> TRUE,
          start |-> <<toICSDate(ev.date)>>,
          end |-> <<toICSDate(ev.date)>>]

\* one VEVENT: DTSTART / DTEND as <<day, hour>>, or as <<day>> for VALUE=DATE
ICSEvent(ev) ==
    IF IsTimed(ev)
    THEN LET endDt == ev.date + OneHour
         IN [uid |-> ev.id, allDay |-> FALSE,
             start |-> <<toICSDate(ev.date), toICSTime(ev.date)>>,
             end |-> <<toICSDate(endDt), toICSTime(endDt)>>]
    ELSE [uid |-> ev.id, allDay |-> TRUE,
          start |-> <<toICSDate(ev.date)>>,
          end |-> <<toICSDate(addDays(ev.date, 1))>>]

\* generateICS(events): the VEVENT blocks in event order
generateICS(events) == [j \in 1..Len(events) |-> ICSEvent(events[j])]

(***************************************************************************)
(* SpecFn: the engine's pure functions applied to inputs drawn from the    *)
(* bounded sets.  inp is the plan and the override list, call is the last  *)
(* application: the function, its arguments and its result.                *)
(***************************************************************************)
NoCall == [fn |-> "none"]

Series == buildAnchors(inp.startDate, inp.frequencyDays, inp.moves)

NoInput == [startDate |-> 0, frequencyDays |-> 1, moves |-> <<>>]
EmptyDb == [settings |-> None, moves |-> <<>>]
AppAtStart == [settings |-> None, moves |-> <<>>, fresh |-> TRUE]
WizardIdle == [pc |-> "idle"]
EditorClosed == [pc |-> "closed"]
\* rs.ran: a reset has run to its end; rs.later: a handler was started after
\* the last reset was
ResetIdle == [pc |-> "idle", ran |-> FALSE, later |-> FALSE]
QuickAddIdle == [pc |-> "idle"]
\* imp.used: a bundle has been imported
ImportIdle == [pc |-> "idle", used |-> FALSE]

InitFn ==
    /\ tz \in TZs
    /\ inp \in [startDate : StartDays, frequencyDays : Freqs, moves : MoveLists]
    /\ call = NoCall
    /\ db = EmptyDb
    /\ now = 0
    /\ app = AppAtStart
    /\ wz = WizardIdle
    /\ pe = EditorClosed
    /\ ops = 0
    /\ rs = ResetIdle
    /\ qa = QuickAddIdle
    /\ imp = ImportIdle

\* toISODate(parseISODate(s))
ApplyRoundTrip ==
    /\ call = NoCall
    /\ \E s \in Days :
          call' = [fn |-> "roundTrip", s |-> s, out |-> toISODate(parseISODate(s))]
    /\ UNCHANGED <<tz, inp, appVars>>

\* computeTreatmentDate(buildAnchors(...), n)
ApplyCompute ==
    /\ call = NoCall
    /\ \E n \in 0..(MaxIdx + 2) :
          call' = [fn |-> "computeTreatmentDate", n |-> n,
                   out |-> computeTreatmentDate(Series, n)]
    /\ UNCHANGED <<tz, inp, appVars>>

\* [...iterateTreatments(series, {fromDate, toDate, cyclesCap})]
ApplyIterate ==
    /\ call = NoCall
    /\ \E f \in Days, t \in Days, cap \in Caps :
          /\ f <= t
          /\ call' = [fn |-> "iterateTreatments",
                      fromDate |-> NewLocalDate(f), toDate |-> NewLocalDate(t),
                      cyclesCap |-> cap,
                      out |-> iterateTreatments(Series, Some(NewLocalDate(f)),
                                  Some(NewLocalDate(t)), DefaultMaxCount, cap)]
    /\ UNCHANGED <<tz, inp, appVars>>

\* the click handler of MoveTreatment up to its saveMoves: upsert {k, D}
ApplyUpsert ==
    /\ call = NoCall
    /\ \E k \in 0..(MaxIdx + 1), D \in Days :
          call' = [fn |-> "upsert", index |-> k, newDate |-> D,
                   out |-> UpsertMove(inp.moves, k, D)]
    /\ UNCHANGED <<tz, inp, appVars>>

\* freezePastMoves and mergeMoves, then the same again on the merged list
\* with the same cutoff
ApplyFreeze ==
    /\ call = NoCall
    /\ \E c \in Days, h \in CutoffHours, cap \in Caps :
          LET cutoff == NewLocalDate(c) + h
              frozen == freezePastMoves(Series, cutoff, cap)
              merged == mergeMoves(inp.moves, frozen)
              series2 == buildAnchors(inp.startDate, inp.frequencyDays, merged)
              frozen2 == freezePastMoves(series2, cutoff, cap)
          IN call' = [fn |-> "freezePastMoves", cutoff |-> cutoff, cyclesCap |-> cap,
                      frozen |-> frozen, merged |-> merged,
                      merged2 |-> mergeMoves(merged, frozen2)]
    /\ UNCHANGED <<tz, inp, appVars>>

\* buildEvents on a plan with rules and one-off items
ApplyBuildEvents ==
    /\ call = NoCall
    /\ \E cap \in Caps, items \in PlanItems, ms \in {0, MaxDay}, monthsAhead \in {0, 1} :
          \* an uncapped plan is enumerated over the short window only
          /\ cap # None \/ monthsAhead = 0
          /\ LET settings == [startDate |-> inp.startDate,
                              frequencyDays |-> inp.frequencyDays,
                              cycles |-> cap, medRules |-> items[1], oneOffs |-> items[2]]
             IN call' = [fn |-> "buildEvents", settings |-> settings, monthStart |-> ms,
                         monthsAhead |-> monthsAhead,
                         out |-> buildEvents(Some(settings), inp.moves, monthsAhead, ms)]
    /\ UNCHANGED <<tz, inp, appVars>>

\* dayToOffset(day) and normalizeDayInput(day)
ApplyDayMapping ==
    /\ call = NoCall
    /\ inp.moves = <<>>
    /\ \E day \in DayInputs :
          call' = [fn |-> "dayMapping", day |-> day,
                   offset |-> dayToOffset(day), normalized |-> normalizeDayInput(day)]
    /\ UNCHANGED <<tz, inp, appVars>>

\* mergeMoves(existing, additions)
ApplyMerge ==
    /\ call = NoCall
    /\ \E add \in AddLists :
          call' = [fn |-> "mergeMoves", base |-> inp.moves, add |-> add,
                   out |-> mergeMoves(inp.moves, add)]
    /\ UNCHANGED <<tz, inp, appVars>>

\* buildAnchors on an override list in any order, with repeated indices
ApplyBuildAnchors ==
    /\ call = NoCall
    /\ inp.moves = <<>>
    /\ \E moves \in RawMoveLists :
          call' = [fn |-> "buildAnchors", moves |-> moves,
                   out |-> buildAnchors(inp.startDate, inp.frequencyDays, moves).anchors]
    /\ UNCHANGED <<tz, inp, appVars>>

\* the export: generateICS(events) on the events of a capped plan
ApplyGenerateICS ==
    /\ call = NoCall
    /\ \E cap \in Caps \ {None}, items \in PlanItems :
          LET settings == [startDate |-> inp.startDate,
                           frequencyDays |-> inp.frequencyDays,
                           cycles |-> cap, medRules |-> items[1], oneOffs |-> items[2]]
              events == buildEvents(Some(settings), inp.moves, 1, 0)
          IN call' = [fn |-> "generateICS", events |-> events,
                      out |-> generateICS(events)]
    /\ UNCHANGED <<tz, inp, appVars>>

\* events.sort on the pushed events, by either sorting algorithm
ApplyEventSort ==
    /\ call = NoCall
    /\ \E cap \in Caps \ {None}, items \in PlanItems, ms \in {0, MaxDay} :
          LET settings == [startDate |-> inp.startDate,
                           frequencyDays |-> inp.frequencyDays,
                           cycles |-> cap, medRules |-> items[1], oneOffs |-> items[2]]
              pushed == PushedEvents(settings, inp.moves, 1, ms)
          IN call' = [fn |-> "sort", pushed |-> pushed,
                      out |-> SortEvents(pushed), merged |-> MergeSortEvents(pushed)]
    /\ UNCHANGED <<tz, inp, appVars>>

NextFn ==
    \/ ApplyDayMapping
    \/ ApplyMerge
    \/ ApplyBuildAnchors
    \/ ApplyGenerateICS
    \/ ApplyEventSort
    \/ ApplyRoundTrip
    \/ ApplyCompute
    \/ ApplyIterate
    \/ ApplyUpsert
    \/ ApplyFreeze
    \/ ApplyBuildEvents

SpecFn == InitFn /\ [][NextFn]_vars

(***************************************************************************)
(* SpecLoop: the loops of iterateTreatments and freezePastMoves, one        *)
(* iteration per step.  call holds the loop's variables: the index i, the   *)
(* number of yields count, the output, and examined, the number of indices  *)
(* whose date the loop has computed, next to the function's arguments.     *)
(* A loop that is started runs on until it leaves the function, hence the   *)
(* weak fairness of the two loop steps.                                     *)
(***************************************************************************)
\* the maxCount arguments
MaxCounts == {1, 2}

\* a cutoff later than the first FreezeMax occurrences of the plan
FarCutoff == NewLocalDate(inp.startDate + FreezeMax * 2 + 1)

\* the loop bound one too large
LoopBound_OffByOne(startIndex, maxCount) == startIndex + maxCount + 1

\* for (let i = startIndex; i < startIndex + maxCount; i++)
LoopBound(startIndex, maxCount) == startIndex + maxCount

\* iterateTreatments up to its loop: first, est, startIndex, count = 0
IterStart ==
    /\ call = NoCall
    /\ \E f \in {0, 2}, t \in {None, Some(2), Some(MaxDay)},
          maxCount \in MaxCounts, cap \in {None, Some(2)} :
          /\ t # None => f <= t[1]
          /\ call' = [fn |-> "iterateLoop", pc |-> "loop", series |-> Series,
                      fromDate |-> Some(NewLocalDate(f)),
                      toDate |-> IF t = None THEN None ELSE Some(NewLocalDate(t[1])),
                      maxCount |-> maxCount, cyclesCap |-> cap,
                      startIndex |-> StartIndex(Series, Some(NewLocalDate(f))),
                      i |-> StartIndex(Series, Some(NewLocalDate(f))),
                      count |-> 0, examined |-> 0, out |-> <<>>]
    /\ UNCHANGED <<tz, inp, appVars>>

\* one iteration of the for loop of iterateTreatments
IterStep ==
    /\ call.fn = "iterateLoop"
    /\ call.pc = "loop"
    /\ IF call.i >= LoopBound(call.startIndex, call.maxCount)
       THEN call' = [call EXCEPT !.pc = "done"]
       ELSE IF call.cyclesCap # None /\ call.i >= call.cyclesCap[1]
       THEN call' = [call EXCEPT !.pc = "done"]
       ELSE LET d == computeTreatmentDate(call.series, call.i) IN
            IF call.toDate # None /\ d > call.toDate[1]
            THEN call' = [call EXCEPT !.pc = "done", !.examined = @ + 1]
            ELSE IF call.fromDate # None /\ d < call.fromDate[1]
            THEN call' = [call EXCEPT !.i = @ + 1, !.examined = @ + 1]
            ELSE IF call.count + 1 >= call.maxCount
            THEN call' = [call EXCEPT !.pc = "done", !.examined = @ + 1,
                                      !.count = @ + 1,
                                      !.out = Append(@, [index |-> call.i, date |-> d])]
            ELSE call' = [call EXCEPT !.i = @ + 1, !.examined = @ + 1,
                                      !.count = @ + 1,
                                      !.out = Append(@, [index |-> call.i, date |-> d])]
    /\ UNCHANGED <<tz, inp, appVars>>

\* freezePastMoves up to its loop; the far cutoff is taken for the plans
\* without overrides
FreezeStart ==
    /\ call = NoCall
    /\ \E cutoff \in {NewLocalDate(2)} \cup
                      (IF inp.moves = <<>> THEN {FarCutoff} ELSE {}),
          cap \in {None, Some(2)} :
          call' = [fn |-> "freezeLoop", pc |-> "loop", series |-> Series,
                   cutoff |-> cutoff,
                   cyclesCap |-> cap, i |-> 0, examined |-> 0, frozen |-> <<>>]
    /\ UNCHANGED <<tz, inp, appVars>>

\* one iteration of the for loop of freezePastMoves
FreezeStep ==
    /\ call.fn = "freezeLoop"
    /\ call.pc = "loop"
    /\ IF call.i >= FreezeMax
       THEN call' = [call EXCEPT !.pc = "done"]
       ELSE IF call.cyclesCap # None /\ call.i >= call.cyclesCap[1]
       THEN call' = [call EXCEPT !.pc = "done"]
       ELSE LET d == computeTreatmentDate(call.series, call.i) IN
            IF d <= call.cutoff
            THEN call' = [call EXCEPT !.i = @ + 1, !.examined = @ + 1,
                                      !.frozen = Append(@, [index |-> call.i,
                                                            newDateISO |-> toISODate(d)])]
            ELSE call' = [call EXCEPT !.pc = "done", !.examined = @ + 1]
    /\ UNCHANGED <<tz, inp, appVars>>

NextLoop ==
    \/ IterStart
    \/ IterStep
    \/ FreezeStart
    \/ FreezeStep

SpecLoop == InitFn /\ [][NextLoop]_vars /\ WF_vars(IterStep) /\ WF_vars(FreezeStep)

(***************************************************************************)
(* Spec: the application.  The store db is written by the handlers of the   *)
(* SetupWizard, of MoveTreatment and of the PlanEditor; every await of a    *)
(* handler is a step of its own, so the handlers interleave at their awaits.*)
(***************************************************************************)
\* the rules the SetupWizard starts with
WizardRules ==
    <<[id |-> "r1", day |-> -1, time |-> None, enabled |-> Some(TRUE)],
      [id |-> "r2", day |-> 2, time |-> None, enabled |-> Some(TRUE)]>>

\* crypto.randomUUID(): the id of the n-th rule or item added to a list of n
NewId(n) == <<"n0", "n1", "n2", "n3", "n4", "n5", "n6", "n7">>[n + 1]

\* the bundles a share code or a file decodes to: one as the export writes
\* it, one written by hand with a rule on day 0 and the overrides out of order
Bundles ==
    { [settings |-> [startDate |-> 1, frequencyDays |-> 2, cycles |-> Some(2),
                     medRules |-> WizardRules, oneOffs |-> <<>>],
       moves |-> <<[index |-> 1, newDateISO |-> 2]>>],
      [settings |-> [startDate |-> 1, frequencyDays |-> 1, cycles |-> None,
                     medRules |-> <<[id |-> "r1", day |-> 0, time |-> None,
                                     enabled |-> Some(TRUE)]>>,
                     oneOffs |-> <<>>],
       moves |-> <<[index |-> 2, newDateISO |-> MaxDay],
                   [index |-> 1, newDateISO |-> 0]>>] }

\* the calendar days the clock starts on
ClockDays == {3}
\* the local hour of the clock
ClockHour == 15
\* the dates the user moves an occurrence to
MoveDays == {0, 2, MaxDay}

Init ==
    /\ tz \in TZs
    /\ inp = NoInput
    /\ call = NoCall
    /\ db = EmptyDb
    /\ now \in {NewLocalDate(d) + ClockHour : d \in ClockDays}
    /\ app = AppAtStart
    /\ wz = WizardIdle
    /\ pe = EditorClosed
    /\ ops = 0
    /\ rs = ResetIdle
    /\ qa = QuickAddIdle
    /\ imp = ImportIdle

\* a handler starts: rs.later records that it started after the last reset
Started == IF rs.pc # "idle" \/ rs.ran THEN [rs EXCEPT !.later = TRUE] ELSE rs

\* refresh(): load the stored plan and overrides into App's state
Refresh ==
    /\ ~app.fresh
    /\ app' = [settings |-> IF db.settings = None THEN None
                            ELSE Some([db.settings[1] EXCEPT
                                        !.medRules = NormalizeRules(@)]),
               moves |-> db.moves, fresh |-> TRUE]
    \* setMode(s ? 'main' : 'wizard'): without a plan the FirstLaunchWizard is
    \* mounted and the PlanEditor is not
    /\ wz' = IF db.settings = None /\ wz.pc = "done" THEN WizardIdle ELSE wz
    /\ pe' = IF db.settings = None /\ pe.pc = "idle" THEN EditorClosed ELSE pe
    /\ UNCHANGED <<tz, fnVars, db, now, ops, rs, qa, imp>>

\* SetupWizard "Save plan": build the settings, await saveSettings(settings)
WizardSaveSettings ==
    /\ app.settings = None
    /\ wz.pc = "idle"
    /\ \E startDate \in StartDays, frequencyDays \in Freqs, cycles \in Caps :
          LET settings == [startDate |-> startDate, frequencyDays |-> frequencyDays,
                           cycles |-> cycles,
                           medRules |-> NormalizeRules(WizardRules),
                           oneOffs |-> <<>>]
          IN /\ db' = [db EXCEPT !.settings = Some(settings)]
             /\ wz' = [pc |-> "saveMoves"]
    /\ rs' = Started
    /\ UNCHANGED <<tz, fnVars, now, app, pe, ops, qa, imp>>

\* ... await saveMoves([]); onComplete(settings): the wizard leaves this step
WizardSaveMoves ==
    /\ wz.pc = "saveMoves"
    /\ db' = [db EXCEPT !.moves = <<>>]
    /\ wz' = [pc |-> "done"]
    /\ app' = [app EXCEPT !.fresh = FALSE]
    /\ UNCHANGED <<tz, fnVars, now, pe, ops, rs, qa, imp>>

\* MoveTreatment "Apply move": upsert {index, newDate} into the moves prop,
\* await saveMoves(updated); onChanged()
ApplyMove ==
    /\ app.settings # None
    /\ ops < MaxOps
    /\ \E index \in Indices, newDate \in MoveDays :
          db' = [db EXCEPT !.moves = UpsertMove(app.moves, index, newDate)]
    /\ app' = [app EXCEPT !.fresh = FALSE]
    /\ ops' = ops + 1
    /\ rs' = Started
    /\ UNCHANGED <<tz, fnVars, now, wz, pe, qa, imp>>

\* PlanEditor mounts: vals is a clone of the settings prop
PeOpen ==
    /\ pe.pc = "closed"
    /\ app.settings # None
    /\ pe' = [pc |-> "idle", dirty |-> FALSE,
              vals |-> [app.settings[1] EXCEPT !.medRules = NormalizeRules(@)]]
    /\ UNCHANGED <<tz, fnVars, db, now, app, wz, ops, rs, qa, imp>>

\* PlanEditor unmounts (the user leaves the tab)
PeClose ==
    /\ pe.pc \in {"idle", "saved"}
    /\ pe' = EditorClosed
    /\ UNCHANGED <<tz, fnVars, db, now, app, wz, ops, rs, qa, imp>>

\* update({startDate}), update({frequencyDays}), update({cycles})
PeEdit ==
    /\ pe.pc = "idle"
    /\ app.settings # None
    /\ ops < MaxOps
    /\ \/ \E v \in StartDays \cup {0} : pe' = [pe EXCEPT !.vals.startDate = v, !.dirty = TRUE]
       \/ \E v \in Freqs : pe' = [pe EXCEPT !.vals.frequencyDays = v, !.dirty = TRUE]
       \/ \E v \in Caps : pe' = [pe EXCEPT !.vals.cycles = v, !.dirty = TRUE]
       \* updateRule(id, {day: 0}), addRule(), duplicateRule(rule)
       \/ \E j \in 1..Len(pe.vals.medRules) :
             pe' = [pe EXCEPT !.vals.medRules[j].day = normalizeDayInput(0),
                              !.dirty = TRUE]
       \/ pe' = [pe EXCEPT !.vals.medRules =
                      Append(@, [id |-> NewId(Len(@)), day |-> 1, time |-> None,
                                 enabled |-> Some(TRUE)]),
                            !.dirty = TRUE]
       \/ /\ pe.vals.medRules # <<>>
          /\ pe' = [pe EXCEPT !.vals.medRules =
                         Append(@, [@[1] EXCEPT !.id = NewId(Len(pe.vals.medRules))]),
                               !.dirty = TRUE]
    /\ ops' = ops + 1
    /\ UNCHANGED <<tz, fnVars, db, now, app, wz, rs, qa, imp>>

\* PlanEditor "Save plan" is clicked: the handler starts, awaiting loadSettings()
PeSaveClick ==
    /\ pe.pc = "idle"
    /\ app.settings # None
    /\ pe.dirty
    /\ pe' = [pc |-> "loadSettings", dirty |-> TRUE, vals |-> pe.vals]
    /\ rs' = Started
    /\ UNCHANGED <<tz, fnVars, db, now, app, wz, ops, qa, imp>>

\* const oldSettings = await loadSettings()
PeLoadSettings ==
    /\ pe.pc = "loadSettings"
    /\ pe' = [pc |-> "loadMoves", dirty |-> TRUE, vals |-> pe.vals,
              oldSettings |-> db.settings]
    /\ UNCHANGED <<tz, fnVars, db, now, app, wz, ops, rs, qa, imp>>

\* const oldMoves = await loadMoves(); if (oldSettings) { series, cutoff,
\* frozen, merged ... }
PeLoadMoves ==
    /\ pe.pc = "loadMoves"
    /\ IF pe.oldSettings # None
       THEN LET old == pe.oldSettings[1]
                series == buildAnchors(old.startDate, old.frequencyDays, db.moves)
                frozen == freezePastMoves(series, now, old.cycles)
            IN pe' = [pc |-> "saveMoves", dirty |-> TRUE, vals |-> pe.vals,
                      oldSettings |-> pe.oldSettings, oldMoves |-> db.moves,
                      cutoff |-> now, frozen |-> frozen,
                      merged |-> mergeMoves(db.moves, frozen)]
       ELSE pe' = [pc |-> "saveSettings", dirty |-> TRUE, vals |-> pe.vals,
                   oldSettings |-> pe.oldSettings, oldMoves |-> db.moves]
    /\ UNCHANGED <<tz, fnVars, db, now, app, wz, ops, rs, qa, imp>>

\* await saveMoves(merged)
PeSaveMoves ==
    /\ pe.pc = "saveMoves"
    /\ db' = [db EXCEPT !.moves = pe.merged]
    /\ pe' = [pe EXCEPT !.pc = "saveSettings"]
    /\ UNCHANGED <<tz, fnVars, now, app, wz, ops, rs, qa, imp>>

\* await saveSettings({...vals, medRules: normalized, oneOffs}); onSaved();
\* setDirty(false)
PeSaveSettings ==
    /\ pe.pc = "saveSettings"
    /\ db' = [db EXCEPT !.settings =
                Some([pe.vals EXCEPT !.medRules = NormalizeRules(@)])]
    /\ pe' = [pe EXCEPT !.pc = "saved", !.dirty = FALSE]
    /\ app' = [app EXCEPT !.fresh = FALSE]
    /\ UNCHANGED <<tz, fnVars, now, wz, ops, rs, qa, imp>>

\* the editor is used again after a save
PeAgain ==
    /\ pe.pc = "saved"
    /\ app.settings # None
    /\ pe' = [pc |-> "idle", dirty |-> FALSE, vals |-> pe.vals]
    /\ UNCHANGED <<tz, fnVars, db, now, app, wz, ops, rs, qa, imp>>

\* Header "Reset": await saveSettings(null)
ResetSaveSettings ==
    /\ rs.pc = "idle"
    /\ ops < MaxOps
    /\ db' = [db EXCEPT !.settings = None]
    /\ rs' = [pc |-> "saveMoves", ran |-> FALSE, later |-> FALSE]
    /\ ops' = ops + 1
    /\ UNCHANGED <<tz, fnVars, now, app, wz, pe, qa, imp>>

\* ... await saveMoves([]); refresh()
ResetSaveMoves ==
    /\ rs.pc = "saveMoves"
    /\ db' = [db EXCEPT !.moves = <<>>]
    /\ rs' = [rs EXCEPT !.pc = "idle", !.ran = TRUE]
    /\ app' = [app EXCEPT !.fresh = FALSE]
    /\ UNCHANGED <<tz, fnVars, now, wz, pe, ops, qa, imp>>

\* QuickAddAppointment.save: const s = await loadSettings(); if (!s) return
QaLoad ==
    /\ qa.pc = "idle"
    /\ app.settings # None
    /\ ops < MaxOps
    /\ qa' = IF db.settings = None THEN QuickAddIdle
             ELSE [pc |-> "saveSettings", s |-> db.settings[1]]
    /\ rs' = Started
    /\ ops' = ops + 1
    /\ UNCHANGED <<tz, fnVars, db, now, app, wz, pe, imp>>

\* ... oneOffs.push({id, dateISO, time, ...}); await saveSettings({...s, oneOffs});
\* onAdded(); dateISO is the state set to toISODate(new Date())
QaSave ==
    /\ qa.pc = "saveSettings"
    /\ db' = [db EXCEPT !.settings =
                Some([qa.s EXCEPT !.oneOffs =
                        Append(@, [id |-> NewId(Len(@)), dateISO |-> toISODate(now),
                                   time |-> None])])]
    /\ qa' = QuickAddIdle
    /\ app' = [app EXCEPT !.fresh = FALSE]
    /\ UNCHANGED <<tz, fnVars, now, wz, pe, ops, rs, imp>>

\* ImportPanel.loadFromCode / uploadJson, SetupWizard.importFromCode /
\* importFromFile: await saveSettings(bundle.settings)
ImportSaveSettings ==
    /\ imp.pc = "idle"
    /\ app.settings = None
    /\ ops < MaxOps
    /\ \E bundle \in Bundles :
          /\ db' = [db EXCEPT !.settings = Some(bundle.settings)]
          /\ imp' = [pc |-> "saveMoves", used |-> TRUE, bundle |-> bundle]
    /\ rs' = Started
    /\ ops' = ops + 1
    /\ UNCHANGED <<tz, fnVars, now, app, wz, pe, qa>>

\* ... await saveMoves(bundle.moves || []); onComplete(bundle.settings)
ImportSaveMoves ==
    /\ imp.pc = "saveMoves"
    /\ db' = [db EXCEPT !.moves = imp.bundle.moves]
    /\ imp' = [pc |-> "idle", used |-> TRUE]
    /\ app' = [app EXCEPT !.fresh = FALSE]
    /\ UNCHANGED <<tz, fnVars, now, wz, pe, ops, rs, qa>>

\* a day passes
Tick ==
    /\ LocalDay(now) < MaxDay - 1
    /\ now' = now + HoursPerDay
    /\ UNCHANGED <<tz, fnVars, db, app, wz, pe, ops, rs, qa, imp>>

Next ==
    \/ Refresh
    \/ WizardSaveSettings
    \/ WizardSaveMoves
    \/ ApplyMove
    \/ PeOpen
    \/ PeClose
    \/ PeEdit
    \/ PeSaveClick
    \/ PeLoadSettings
    \/ PeLoadMoves
    \/ PeSaveMoves
    \/ PeSaveSettings
    \/ PeAgain
    \/ ResetSaveSettings
    \/ ResetSaveMoves
    \/ QaLoad
    \/ QaSave
    \/ ImportSaveSettings
    \/ ImportSaveMoves
    \/ Tick

Spec == Init /\ [][Next]_vars

(***************************************************************************)
(* Claims on the engine's pure functions, checked under SpecFn.            *)
(***************************************************************************)
Called(fn) == call.fn = fn

\* the series rebuilt from the override list an upsert produced
UpsertSeries == buildAnchors(inp.startDate, inp.frequencyDays, call.out)

\* C2 (as stated): after upserting {k, D} the rebuilt series resolves
\* occurrence k to D and occurrence k+1 to D plus frequencyDays days.
C2_OverridePinning ==
    Called("upsert") =>
        /\ computeTreatmentDate(UpsertSeries, call.index) = NewLocalDate(call.newDate)
        /\ computeTreatmentDate(UpsertSeries, call.index + 1)
              = NewLocalDate(call.newDate + inp.frequencyDays)

\* C3: an override upserted at index k changes the date of no occurrence
\* with a smaller index.
C3_FutureOnly ==
    Called("upsert") =>
        \A i \in 0..(call.index - 1) :
            computeTreatmentDate(UpsertSeries, i) = computeTreatmentDate(Series, i)

\* an upsert at index 2 that moved occurrence 2, with occurrences 0 and 1 before it
C3_Witness ==
    /\ Called("upsert")
    /\ call.index = 2
    /\ inp.moves # <<>>
    /\ computeTreatmentDate(UpsertSeries, 2) # computeTreatmentDate(Series, 2)

\* C4: with no overrides occurrence n falls on startDate plus n * frequencyDays
\* days, so occurrence 0 falls on startDate.
C4_LinearExtrapolation ==
    (Called("computeTreatmentDate") /\ inp.moves = <<>>) =>
        /\ call.out = NewLocalDate(inp.startDate + call.n * inp.frequencyDays)
        /\ call.n = 0 => toISODate(call.out) = toISODate(parseISODate(inp.startDate))

\* occurrence 3 of a plan without overrides and frequency 2 was resolved
C4_Witness ==
    /\ Called("computeTreatmentDate")
    /\ inp.moves = <<>>
    /\ inp.frequencyDays = 2
    /\ call.n = 3
    /\ LocalDay(call.out) = inp.startDate + 6

\* the walk of iterateTreatments started at index 0 instead of the estimate
ScanFromZero ==
    Walk(Series, 0, DefaultMaxCount, 0, Some(call.fromDate), Some(call.toDate),
         DefaultMaxCount, call.cyclesCap, <<>>)

\* C5 (as stated): iterateTreatments, started at the estimated index, yields
\* the same sequence as the same walk started at index 0.
C5_EstimateIsExact ==
    Called("iterateTreatments") => call.out = ScanFromZero

\* C6: every occurrence iterateTreatments yields is dated inside the window.
C6_InsideWindow ==
    Called("iterateTreatments") =>
        \A j \in 1..Len(call.out) :
            /\ call.fromDate <= call.out[j].date
            /\ call.out[j].date <= call.toDate

\* occurrences before, inside and after the window: one was skipped, some
\* were yielded, and the walk stopped at one past the window
C6_Witness ==
    /\ Called("iterateTreatments")
    /\ call.cyclesCap = None
    /\ Len(call.out) >= 2
    /\ call.out[1].index >= 1
    /\ computeTreatmentDate(Series, call.out[1].index - 1) < call.fromDate
    /\ computeTreatmentDate(Series, call.out[Len(call.out)].index + 1) > call.toDate

\* C7 (as stated): iterateTreatments yields strictly ascending dates.
C7_AscendingDates ==
    Called("iterateTreatments") =>
        \A j \in 1..(Len(call.out) - 1) : call.out[j].date < call.out[j + 1].date

\* C8: with a cycle cap set, iterateTreatments yields no occurrence,
\* buildEvents emits no treatment or action event and freezePastMoves emits
\* no override with an index at or above the cap.
C8_CapRespected ==
    /\ (Called("iterateTreatments") /\ call.cyclesCap # None) =>
          \A j \in 1..Len(call.out) : call.out[j].index < call.cyclesCap[1]
    /\ (Called("buildEvents") /\ call.settings.cycles # None) =>
          \A j \in 1..Len(call.out) :
              call.out[j].type \in {"treatment", "action"} =>
                  call.out[j].index < call.settings.cycles[1]
    /\ (Called("freezePastMoves") /\ call.cyclesCap # None) =>
          \A j \in 1..Len(call.frozen) : call.frozen[j].index < call.cyclesCap[1]

\* buildEvents on a plan capped at 2 cycles emitted occurrences 0 and 1 with
\* their actions, and occurrence 2 would have been dated inside the window
C8_Witness ==
    /\ Called("buildEvents")
    /\ call.settings.cycles = Some(2)
    /\ \E j \in 1..Len(call.out) : call.out[j].type = "action" /\ call.out[j].index = 1
    /\ LocalDay(computeTreatmentDate(Series, 2)) <= call.monthStart + DaysPerMonthAhead
    /\ LocalDay(computeTreatmentDate(Series, 2)) >= call.monthStart - WindowBackDays

\* C9 (as stated): freezing and merging a second time with the same cutoff
\* leaves the merged override list unchanged.
C9_FreezeIdempotent ==
    Called("freezePastMoves") => call.merged2 = call.merged

\* C10 (as stated): toISODate(parseISODate(s)) = s in every timezone.
C10_RoundTrip ==
    Called("roundTrip") => call.out = call.s

\* the indices of an override or anchor list
IndexSet(l) == {l[j].index : j \in 1..Len(l)}

\* the list is strictly ascending by index
StrictlyByIndex(l) == \A j, k \in 1..Len(l) : j < k => l[j].index < l[k].index

\* C12: dayToOffset maps d >= 1 to d - 1 and d < 0 to d; normalizeDayInput
\* maps 0 to 1 and every other integer to itself.
C12_DayMapping ==
    Called("dayMapping") =>
        /\ call.day >= 1 => call.offset = call.day - 1
        /\ call.day < 0 => call.offset = call.day
        /\ call.day = 0 => call.normalized = 1
        /\ call.day # 0 => call.normalized = call.day

\* day 2 was mapped to the offset 1
C12_Witness ==
    /\ Called("dayMapping")
    /\ call.day = 2
    /\ call.offset = 1
    /\ call.normalized = 2

\* C13: mergeMoves returns the union keyed by index: every index of either
\* list once, in ascending order, with the addition's date where both lists
\* hold the index and the existing date where only the existing list does.
C13_MergeUnion ==
    Called("mergeMoves") =>
        /\ IndexSet(call.out) = IndexSet(call.base) \cup IndexSet(call.add)
        /\ StrictlyByIndex(call.out)
        /\ \A j \in 1..Len(call.out) :
              /\ \A a \in 1..Len(call.add) :
                    call.add[a].index = call.out[j].index =>
                        call.out[j].newDateISO = call.add[a].newDateISO
              /\ \A b \in 1..Len(call.base) :
                    (call.base[b].index = call.out[j].index
                        /\ call.out[j].index \notin IndexSet(call.add)) =>
                        call.out[j].newDateISO = call.base[b].newDateISO

\* both lists hold an index with different dates, the existing list holds an
\* index of its own, and an addition sorts before an existing entry
C13_Witness ==
    /\ Called("mergeMoves")
    /\ \E b \in 1..Len(call.base), a \in 1..Len(call.add) :
          /\ call.base[b].index = call.add[a].index
          /\ call.base[b].newDateISO # call.add[a].newDateISO
    /\ IndexSet(call.base) \ IndexSet(call.add) # {}
    /\ \E b \in 1..Len(call.base), a \in 1..Len(call.add) :
          call.add[a].index < call.base[b].index
    /\ Len(call.out) = 3

\* the anchor of the start date
StartAnchor == [index |-> 0, date |-> parseISODate(inp.startDate)]

\* C14 (as stated): the anchors of buildAnchors contain {0, startDate} and
\* one entry per overridden index.
C14_StartAnchorKept ==
    Called("buildAnchors") =>
        /\ \E j \in 1..Len(call.out) : call.out[j] = StartAnchor
        /\ \A i \in IndexSet(call.moves) :
              Cardinality({j \in 1..Len(call.out) : call.out[j].index = i}) = 1

\* the position of the last override of index 0 in the list
LastOverrideOfZero(moves) ==
    CHOOSE j \in 1..Len(moves) :
        /\ moves[j].index = 0
        /\ \A k \in (j + 1)..Len(moves) : moves[k].index # 0

\* C14 (amended): the anchors hold exactly one entry for index 0 and one per
\* overridden index; the entry of index 0 is {0, startDate} unless index 0
\* is overridden, and then it carries the date of the last override of 0.
C14_AnchorPerIndex ==
    Called("buildAnchors") =>
        /\ \A i \in {0} \cup IndexSet(call.moves) :
              Cardinality({j \in 1..Len(call.out) : call.out[j].index = i}) = 1
        /\ IndexSet(call.out) = {0} \cup IndexSet(call.moves)
        /\ \A j \in 1..Len(call.out) :
              call.out[j].index = 0 =>
                  call.out[j] =
                      IF 0 \in IndexSet(call.moves)
                      THEN [index |-> 0,
                            date |-> NewLocalDate(
                                call.moves[LastOverrideOfZero(call.moves)].newDateISO)]
                      ELSE StartAnchor

\* occurrence 0 was overridden twice, with different dates, and another
\* occurrence was overridden too
C14_Witness ==
    /\ Called("buildAnchors")
    /\ \E j, k \in 1..Len(call.moves) :
          /\ j < k
          /\ call.moves[j].index = 0
          /\ call.moves[k].index = 0
          /\ call.moves[j].newDateISO # call.moves[k].newDateISO
    /\ IndexSet(call.moves) # {0}
    /\ Len(call.out) = 2

\* C15: the anchors of buildAnchors are strictly ascending by index, so no
\* index appears twice, whatever the order and the repeats of the overrides.
C15_AnchorsStrictlySorted ==
    Called("buildAnchors") => StrictlyByIndex(call.out)

\* three overrides in descending order, one index twice, one of them index 0
C15_Witness ==
    /\ Called("buildAnchors")
    /\ Len(call.moves) = 3
    /\ call.moves[1].index > call.moves[2].index
    /\ call.moves[2].index = call.moves[3].index
    /\ 0 \in IndexSet(call.moves)
    /\ Len(call.out) = 2

\* the time of day of a timed event
TimeOf(ev) == IF ev.type = "action" THEN ev.rule.time ELSE ev.item.time

\* the event carries a time of day
HasTime(ev) == ev.type # "treatment" /\ TimeOf(ev) # None

\* C16: an event without a time of day on date D is exported as the whole
\* day D with end D + 1; an event with a time of day at T is exported with
\* start T and end T + 1 hour, on the next day when T is 23:00 or later.
C16_ExportStartEnd ==
    Called("generateICS") =>
        /\ Len(call.out) = Len(call.events)
        /\ \A j \in 1..Len(call.events) :
              LET ev == call.events[j]
                  ics == call.out[j]
                  D == LocalDay(ev.date)
              IN IF HasTime(ev)
                 THEN LET h == TimeOf(ev)[1] IN
                      /\ ~ics.allDay
                      /\ ics.start = <<D, h>>
                      /\ ics.end = IF h >= HoursPerDay - 1
                                   THEN <<D + 1, h + 1 - HoursPerDay>>
                                   ELSE <<D, h + 1>>
                 ELSE /\ ics.allDay
                      /\ ics.start = <<D>>
                      /\ ics.end = <<D + 1>>

\* the export holds a treatment, an action without a time, an action at
\* 09:00 and a one-off at 23:00 that ends on the next day
C16_Witness ==
    /\ Called("generateICS")
    /\ \E j \in 1..Len(call.events) : call.events[j].type = "treatment"
    /\ \E j \in 1..Len(call.events) :
          call.events[j].type = "action" /\ ~HasTime(call.events[j])
    /\ \E j \in 1..Len(call.events) :
          call.events[j].type = "action" /\ HasTime(call.events[j])
    /\ \E j \in 1..Len(call.events) :
          /\ call.events[j].type = "oneoff"
          /\ call.events[j].item.time = Some(23)
          /\ call.out[j].end[1] = call.out[j].start[1] + 1

\* the events are in date-time order, a treatment before the actions and
\* one-offs of its date-time
SortedEvents(events) ==
    \A j, k \in 1..Len(events) :
        j < k =>
            /\ events[j].date <= events[k].date
            /\ (events[j].date = events[k].date /\ events[k].type = "treatment") =>
                  events[j].type = "treatment"

\* C20: the list buildEvents returns is sorted by date-time ascending with
\* the treatment first among the events of one date-time, whichever sorting
\* algorithm the engine uses.
C20_EventsSorted ==
    /\ Called("buildEvents") => SortedEvents(call.out)
    /\ Called("sort") => SortedEvents(call.out) /\ SortedEvents(call.merged)

\* an action was pushed before a treatment of the same date-time, and the
\* two sorting algorithms order the events differently
C20_Witness ==
    /\ Called("sort")
    /\ \E j, k \in 1..Len(call.pushed) :
          /\ j < k
          /\ call.pushed[j].type = "action"
          /\ call.pushed[k].type = "treatment"
          /\ call.pushed[j].date = call.pushed[k].date
    /\ call.out # call.merged

\* the occurrences buildEvents enumerated for the call
EnumeratedOccs ==
    iterateTreatments(Series,
        Some(addDays(NewLocalDate(call.monthStart), -WindowBackDays)),
        Some(addDays(NewLocalDate(call.monthStart), call.monthsAhead * DaysPerMonthAhead)),
        DefaultMaxCount, call.settings.cycles)

\* the positions of the events of a type, occurrence index and rule or item id
EventsOf(type, index, id) ==
    {j \in 1..Len(call.out) :
        /\ call.out[j].type = type
        /\ type # "oneoff" => call.out[j].index = index
        /\ type = "action" => call.out[j].rule.id = id
        /\ type = "oneoff" => call.out[j].item.id = id}

\* C21: buildEvents emits one treatment event per enumerated occurrence, one
\* action event per occurrence and enabled rule on the occurrence's day plus
\* the rule's offset, none for a rule with enabled = false, and one event per
\* one-off item on the item's day; it emits nothing else.
C21_EventsPerOccurrence ==
    Called("buildEvents") =>
        LET occs == EnumeratedOccs
            rules == call.settings.medRules
            ones == call.settings.oneOffs
            off(r) == rules[r].enabled = Some(FALSE)
            shift(day) == IF day >= 1 THEN day - 1 ELSE day
        IN /\ \A o \in 1..Len(occs) :
                /\ Cardinality(EventsOf("treatment", occs[o].index, "")) = 1
                /\ \A j \in EventsOf("treatment", occs[o].index, "") :
                      call.out[j].date = occs[o].date
                /\ \A r \in 1..Len(rules) :
                      /\ Cardinality(EventsOf("action", occs[o].index, rules[r].id))
                            = IF off(r) THEN 0 ELSE 1
                      /\ \A j \in EventsOf("action", occs[o].index, rules[r].id) :
                            LocalDay(call.out[j].date)
                                = LocalDay(occs[o].date) + shift(rules[r].day)
           /\ \A i \in 1..Len(ones) :
                /\ Cardinality(EventsOf("oneoff", 0, ones[i].id)) = 1
                /\ \A j \in EventsOf("oneoff", 0, ones[i].id) :
                      LocalDay(call.out[j].date) = ones[i].dateISO
           /\ Len(call.out) =
                Len(occs) * (1 + Cardinality({r \in 1..Len(rules) : ~off(r)})) + Len(ones)

\* two occurrences of a plan with an enabled rule, a rule with
\* enabled = false and two one-off items
C21_Witness ==
    /\ Called("buildEvents")
    /\ Len(EnumeratedOccs) = 2
    /\ \E r \in 1..Len(call.settings.medRules) :
          call.settings.medRules[r].enabled = Some(FALSE)
    /\ Len(call.settings.oneOffs) = 2
    /\ Len(call.out) = 6

C23_FreezeExactlyPast ==
    Called("freezePastMoves") =>
        \A i \in 0..(MaxIdx + MaxDay + 2) :
            LET d == computeTreatmentDate(Series, i)
                past == d <= call.cutoff /\ (call.cyclesCap = None \/ i < call.cyclesCap[1])
                at == {j \in 1..Len(call.frozen) : call.frozen[j].index = i}
            IN /\ past <=> at # {}
               /\ \A j \in at : call.frozen[j].newDateISO = LocalDay(d)

\* the position of the last override of index i in the list
LastOverrideOf(moves, i) ==
    CHOOSE j \in 1..Len(moves) :
        /\ moves[j].index = i
        /\ \A k \in (j + 1)..Len(moves) : moves[k].index # i

\* C25: the anchor of an overridden index carries the date of the override
\* that comes last in the input list, the anchor of index 0 included.
C25_LastOverrideWins ==
    Called("buildAnchors") =>
        \A i \in IndexSet(call.moves) :
            \E j \in 1..Len(call.out) :
                call.out[j] =
                    [index |-> i,
                     date |-> NewLocalDate(call.moves[LastOverrideOf(call.moves, i)].newDateISO)]

\* an index above 0 overridden twice with different dates, around an
\* override of occurrence 0
C25_Witness ==
    /\ Called("buildAnchors")
    /\ Len(call.moves) = 3
    /\ call.moves[1].index = call.moves[3].index
    /\ call.moves[1].index > 0
    /\ call.moves[1].newDateISO # call.moves[3].newDateISO
    /\ call.moves[2].index = 0
    /\ call.out[1].date # parseISODate(inp.startDate)

\* C27: the events buildEvents returns have pairwise distinct ids, and so
\* have the blocks of the export.
C27_DistinctIds ==
    /\ Called("buildEvents") =>
          \A j, k \in 1..Len(call.out) : j # k => call.out[j].id # call.out[k].id
    /\ Called("generateICS") =>
          \A j, k \in 1..Len(call.out) : j # k => call.out[j].uid # call.out[k].uid

\* two occurrences with two actions each and two one-off items
C27_Witness ==
    /\ Called("buildEvents")
    /\ Cardinality({j \in 1..Len(call.out) : call.out[j].type = "treatment"}) = 2
    /\ Cardinality({j \in 1..Len(call.out) : call.out[j].type = "action"}) = 4
    /\ Cardinality({j \in 1..Len(call.out) : call.out[j].type = "oneoff"}) = 2

(***************************************************************************)
(* Claims on the handlers, checked under Spec.                             *)
(***************************************************************************)
\* the series of the plan and overrides the save handler loaded
SavedOldSeries ==
    buildAnchors(pe.oldSettings[1].startDate, pe.oldSettings[1].frequencyDays, pe.oldMoves)

\* the series of the plan the save handler stored and the merged overrides
SavedNewSeries ==
    buildAnchors(pe.vals.startDate, pe.vals.frequencyDays, pe.merged)

\* occurrence i exists under the plan the save handler loaded
ExistsInOldPlan(i) ==
    pe.oldSettings[1].cycles = None \/ i < pe.oldSettings[1].cycles[1]

\* C1 (as stated): after a plan save, every occurrence dated at or before
\* the cutoff under the old plan and old overrides resolves to the same
\* calendar date under the new plan and the merged overrides.
C1_PastDatesSurvive ==
    (pe.pc = "saved" /\ pe.oldSettings # None) =>
        \A i \in 0..(MaxIdx + 3) :
            (ExistsInOldPlan(i) /\ computeTreatmentDate(SavedOldSeries, i) <= pe.cutoff) =>
                LocalDay(computeTreatmentDate(SavedNewSeries, i))
                    = LocalDay(computeTreatmentDate(SavedOldSeries, i))

\* C11 (as stated): no rule of the stored plan has day indicator 0.
C11_NoDayZeroStored ==
    db.settings # None =>
        \A j \in 1..Len(db.settings[1].medRules) : db.settings[1].medRules[j].day # 0

\* C17: as long as no bundle is imported, the stored override list is
\* strictly ascending by index (one override per index), and a move of
\* occurrence k to D leaves {k, D} as the override of k and keeps the
\* overrides of the other indices.
C17_OneOverridePerIndex ==
    [][~imp'.used =>
          /\ StrictlyByIndex(db'.moves)
          /\ \A index \in Indices, newDate \in MoveDays :
                (ApplyMove /\ db'.moves = UpsertMove(app.moves, index, newDate)) =>
                    /\ \E j \in 1..Len(db'.moves) :
                          db'.moves[j] = [index |-> index, newDateISO |-> newDate]
                    /\ \A j \in 1..Len(app.moves) :
                          app.moves[j].index # index =>
                              \E k \in 1..Len(db'.moves) : db'.moves[k] = app.moves[j]]_vars

\* the store holds the later of two moves of one occurrence, next to the
\* override of another occurrence; App still shows the earlier move
C17_Witness ==
    /\ ~imp.used
    /\ ~app.fresh
    /\ Len(app.moves) = 2
    /\ Len(db.moves) = 2
    /\ \E j \in 1..2 :
          /\ app.moves[j].index = db.moves[j].index
          /\ app.moves[j].newDateISO # db.moves[j].newDateISO
          /\ app.moves[3 - j] = db.moves[3 - j]

\* a handler is between two of its awaits
HandlerInFlight ==
    \/ pe.pc \in {"loadSettings", "loadMoves", "saveMoves", "saveSettings"}
    \/ qa.pc # "idle"
    \/ wz.pc = "saveMoves"
    \/ imp.pc # "idle"

\* C18 (as stated): once the reset handler and every handler that was in
\* flight when it started have finished, the store holds no plan and no
\* overrides.
C18_ResetClears ==
    (rs.ran /\ rs.pc = "idle" /\ ~rs.later /\ ~HandlerInFlight) => db = EmptyDb

\* C19 (as stated): when the plan save persists the new plan over an
\* existing one, the store holds the merged overrides, not the override list
\* as it was before the freeze.
C19_MergedBeforePlan ==
    [][(pe.pc = "saveSettings" /\ pe'.pc = "saved" /\ pe.oldSettings # None
            /\ pe.merged # pe.oldMoves) =>
          db'.moves # pe.oldMoves]_vars

\* the save handler of the plan editor writes the merged overrides
PlanSaveWritesMoves == pe.pc = "saveMoves" /\ pe'.pc = "saveSettings"

\* every override of the list moves is an entry of the list stored
KeptIn(moves, stored) ==
    \A k \in 1..Len(moves) : \E j \in 1..Len(stored) : stored[j] = moves[k]

\* C26 (as stated): a plan save leaves every override stored before it in
\* the store with the same date, and the indices it adds are those of
\* occurrences dated at or before the cutoff under the old plan.
C26_OverridesUndisturbed ==
    [][PlanSaveWritesMoves =>
          /\ KeptIn(pe.oldMoves, db'.moves)
          /\ \A j \in 1..Len(db'.moves) :
                \/ db'.moves[j].index \in IndexSet(pe.oldMoves)
                \/ /\ ExistsInOldPlan(db'.moves[j].index)
                   /\ computeTreatmentDate(SavedOldSeries, db'.moves[j].index) <= pe.cutoff]_vars

\* the store between the two writes of a plan save: the merged overrides
\* next to the old plan
BetweenWrites ==
    /\ pe.pc = "saveSettings"
    /\ pe.oldSettings # None
    /\ db.settings = pe.oldSettings
    /\ db.moves = pe.merged

\* C28 (as stated): between the two writes of a plan save every
\* occurrence index resolves to the date it had before the save.
C28_IntermediateStateSame ==
    BetweenWrites =>
        \A i \in 0..(MaxIdx + 3) :
            computeTreatmentDate(buildAnchors(db.settings[1].startDate,
                                              db.settings[1].frequencyDays, db.moves), i)
                = computeTreatmentDate(SavedOldSeries, i)

\* the save handler of the plan editor writes the plan
PlanSaveWritesPlan == pe.pc = "saveSettings" /\ pe'.pc = "saved"

\* C29 (as stated): a one-off item in the store when the plan editor
\* writes its plan is in the store afterwards.
C29_OneOffNotLost ==
    [][(PlanSaveWritesPlan /\ db.settings # None) =>
          \A k \in 1..Len(db.settings[1].oneOffs) :
              \E j \in 1..Len(db'.settings[1].oneOffs) :
                  db'.settings[1].oneOffs[j] = db.settings[1].oneOffs[k]]_vars

\* the plan saved differs from the plan loaded in its startDate only
OnlyStartDateChanged ==
    /\ pe.vals.startDate # pe.oldSettings[1].startDate
    /\ [pe.vals EXCEPT !.startDate = pe.oldSettings[1].startDate,
                       !.medRules = NormalizeRules(@)]
          = [pe.oldSettings[1] EXCEPT !.medRules = NormalizeRules(@)]

\* C30 (as stated): when occurrence 0 under the old plan is dated at or
\* before the cutoff, a plan save that changes only startDate changes
\* the date of no occurrence.
C30_StartDateEditNoShift ==
    (/\ pe.pc = "saved"
     /\ pe.oldSettings # None
     /\ OnlyStartDateChanged
     /\ ExistsInOldPlan(0)
     /\ computeTreatmentDate(SavedOldSeries, 0) <= pe.cutoff) =>
        \A i \in 0..(MaxIdx + 3) :
            computeTreatmentDate(SavedNewSeries, i) = computeTreatmentDate(SavedOldSeries, i)

(***************************************************************************)
(* Claims on the loops, checked under SpecLoop.                            *)
(***************************************************************************)
\* a loop is running
InLoop(fn) == call.fn = fn /\ call.pc = "loop"

\* a loop has left its function
LoopDone(fn) == call.fn = fn /\ call.pc = "done"

\* the loop of iterateTreatments is about to compute the date of index i
InIterBody ==
    /\ InLoop("iterateLoop")
    /\ call.i < call.startIndex + call.maxCount
    /\ call.cyclesCap = None \/ call.i < call.cyclesCap[1]

\* the counts of the loops stay within their guards
LoopCounts ==
    /\ call.fn = "iterateLoop" =>
          /\ Len(call.out) <= call.maxCount
          /\ call.examined <= call.maxCount
    /\ call.fn = "freezeLoop" => call.examined <= FreezeMax

\* an occurrence after toDate stops the loop, one before fromDate is
\* skipped and the loop goes on with the next index
LoopSkipsAndStops ==
    InIterBody =>
        LET d == computeTreatmentDate(call.series, call.i)
        IN /\ (call.toDate # None /\ d > call.toDate[1]) =>
                 call'.pc = "done" /\ call'.out = call.out
           /\ (~(call.toDate # None /\ d > call.toDate[1]) /\ d < call.fromDate[1]) =>
                 call'.pc = "loop" /\ call'.i = call.i + 1 /\ call'.out = call.out

\* C24: iterateTreatments terminates, yields at most maxCount occurrences
\* and examines at most maxCount indices, skips the occurrences before
\* fromDate without stopping and stops at the first one after toDate;
\* freezePastMoves terminates after examining at most 1000 indices.
C24_LoopsTerminate ==
    /\ []LoopCounts
    /\ [][LoopSkipsAndStops]_vars
    /\ InLoop("iterateLoop") ~> LoopDone("iterateLoop")
    /\ InLoop("freezeLoop") ~> LoopDone("freezeLoop")

\* iterateTreatments without a toDate skipped an occurrence, yielded one
\* and was stopped by its loop bound after maxCount indices
C24_Witness ==
    /\ call.fn = "iterateLoop"
    /\ call.pc = "done"
    /\ call.toDate = None
    /\ call.examined = call.maxCount
    /\ Len(call.out) = 1
    /\ call.maxCount = 2

====
